---------------------------- MODULE Spec2Model ----------------------------
(***************************************************************************)
(* The online bookstore's cross-cutting request mechanism:                 *)
(*   - shared_auth.py: the bearer credential is forwarded to the user      *)
(*     service's /verify-token and its verdict becomes an identity or an   *)
(*     HTTPException;                                                      *)
(*   - the endpoints of catalog, order, payment, review and notification   *)
(*     services: the try / except / finally around the business logic;     *)
(*   - shared_logging.py: log_request builds the record, a daemon thread   *)
(*     posts it to the logging service's /logs;                            *)
(*   - logging_service/main.py: LogEntry validation and create_log.        *)
(* Python's None is modelled by NoneId (0) for integers, "" for strings    *)
(* and PyNone for payload values.                                          *)
(***************************************************************************)
EXTENDS Integers, Sequences, FiniteSets, TLC

\* Number of requests a service instance handles (concurrently).
MaxReq == 2
\* Number of direct calls of MicroserviceLogger.log_request (SpecEmitter).
MaxCalls == 1
\* Number of rows a table of a data service can hold.
MaxRows == 2
\* Number of requests a data service handles concurrently.
MaxProc == 2
\* Last reading of the clock.
MaxClock == 3
\* Number of access tokens login issues.
MaxTokens == 1

Req == 1..MaxReq
\* Owner index of the dispatches started by direct log_request calls.
Direct == 0

NoneId == 0

VARIABLES
    pc,                \* per request: START, AUTHENTICATING, EXECUTING, RESPONDED
                       \* (SINK_WAIT: blocked in log_request until its thread ends)
    request,           \* per request: endpoint, Authorization header, user_id in the path
    auth_reply,        \* per request: what the identity service did with the call
    verify_calls,      \* per request: outbound GET /verify-token calls issued
    current_user,      \* per request: the dict require_auth returned
    outcome,           \* per request: how the business logic ended
    response,          \* per request: what the caller receives
    log_calls,         \* per request: calls of logger.log_request
    threads,           \* per owner: the send_log threads started, in order
    now,               \* the clock (datetime.utcnow()), in ticks
    log_file,          \* logging service: the lines written to micro_services.log
    users,             \* user service: the rows of table users, by id
    tokens,            \* user service: the access tokens login has issued
    payments,          \* payment service: the rows of table payments, by id
    orders,            \* order service: the rows of table orders, by id
    order_items,       \* order service: the rows of table order_items
    reviews,           \* review service: the rows of table reviews, by id
    session,           \* per process: the request of a data service it is handling
    last               \* the data operation that ended last, and its response

\* The state of the request mechanism and the state of the data services.
mechanism == <<pc, request, auth_reply, verify_calls, current_user, outcome, response,
               log_calls, threads>>
services == <<now, log_file, users, tokens, payments, orders, order_items, reviews,
          session, last>>

vars == <<pc, request, auth_reply, verify_calls, current_user, outcome, response,
          log_calls, threads, now, log_file, users, tokens, payments, orders,
          order_items, reviews, session, last>>

Proc == 1..MaxProc
\* A process that handles no request, and the operation before the first.
Idle == [op |-> "", step |-> "", id |-> NoneId, n |-> NoneId, a |-> "", b |-> ""]
NoOp == [op |-> "", status_code |-> 0, detail |-> "", id |-> NoneId, user_id |-> NoneId]

----------------------------------------------------------------------------
(* Python values handed to log_request as request_data / response_data.    *)
(* tag: None, int, str, dict (JSON-encodable), dict_dt (a dict holding a   *)
(* datetime), model (pydantic model of primitive fields), model_dt         *)
(* (pydantic model with a datetime field), orm (SQLAlchemy row).           *)
(* of: for a str made by str(data), the tag of data.                       *)

PyVal(t) == [tag |-> t, of |-> ""]
PyNone == PyVal("None")
PyStr(data) == [tag |-> "str", of |-> data.tag]

PyValues == {PyVal(t) : t \in {"None", "int", "dict", "dict_dt", "model", "model_dt", "orm"}}

\* hasattr(data, 'dict')
HasDictAttr(data) == data.tag \in {"model", "model_dt"}

\* data.dict(): the fields of the model, values unchanged
PyDict(data) == IF data.tag = "model_dt" THEN PyVal("dict_dt") ELSE PyVal("dict")

\* json.dumps(data): "ok" or the exception it raises
JsonDumps(data) ==
    IF data.tag \in {"None", "int", "str", "dict"} THEN "ok" ELSE "TypeError"

\* The exceptions safe_serialize catches.
SafeSerializeCatches == {"TypeError", "ValueError"}

Returned(v) == [raised |-> "", value |-> v]
Raised(e) == [raised |-> e, value |-> PyNone]

\* safe_serialize with the except clause left out: the TypeError escapes.
safe_serialize_uncaught(data) ==
    IF data = PyNone THEN Returned(PyNone)
    ELSE IF HasDictAttr(data) THEN Returned(PyDict(data))
    ELSE IF JsonDumps(data) = "ok" THEN Returned(data)
    ELSE Raised(JsonDumps(data))

safe_serialize(data) ==
    IF data = PyNone THEN Returned(PyNone)
    ELSE IF HasDictAttr(data) THEN Returned(PyDict(data))
    ELSE IF JsonDumps(data) = "ok" THEN Returned(data)
    ELSE IF JsonDumps(data) \in SafeSerializeCatches THEN Returned(PyStr(data))
    ELSE Raised(JsonDumps(data))

NoLogData ==
    [service_name |-> "", endpoint |-> "", method |-> "", status_code |-> 0,
     user_id |-> NoneId, request_data |-> PyNone, response_data |-> PyNone,
     error_message |-> "", timestamp |-> ""]

\* MicroserviceLogger.log_request up to the hand-over to _send_log_async:
\* the record it builds, or the exception that escapes it.
log_request(service_name, endpoint, method, status_code, user_id, request_data, response_data, error_message) ==
    LET rq == safe_serialize(request_data)
        rs == safe_serialize(response_data)
    IN  IF rq.raised # "" THEN [raised |-> rq.raised, log_data |-> NoLogData]
        ELSE IF rs.raised # "" THEN [raised |-> rs.raised, log_data |-> NoLogData]
        ELSE [raised |-> "",
              log_data |-> [service_name |-> service_name, endpoint |-> endpoint,
                            method |-> method, status_code |-> status_code,
                            user_id |-> user_id,
                            request_data |-> rq.value, response_data |-> rs.value,
                            error_message |-> error_message,
                            timestamp |-> "utcnow"]]

\* _send_log_async that keeps the record in one attribute of the logger,
\* shared by all calls: a thread may read the user_id another call wrote.
send_log_async_shared_record(log_data) ==
    LET busy == {o \in DOMAIN threads : Len(threads[o]) > 0}
        seen == IF busy = {} THEN log_data
                ELSE [log_data EXCEPT
                         !.user_id = threads[CHOOSE o \in busy : TRUE][1].log_data.user_id]
    IN  [thread |-> [log_data |-> seen, state |-> "started", posts |-> 0, printed |-> FALSE],
         join |-> FALSE]

\* _send_log_async that joins the thread it started: the caller waits.
send_log_async_joined(log_data) ==
    [thread |-> [log_data |-> log_data, state |-> "started", posts |-> 0, printed |-> FALSE],
     join |-> TRUE]

\* MicroserviceLogger._send_log_async: a daemon thread running send_log is
\* started; join tells whether the caller waits for it (it does not: the
\* code calls thread.start() and returns).
send_log_async(log_data) ==
    [thread |-> [log_data |-> log_data, state |-> "started", posts |-> 0, printed |-> FALSE],
     join |-> FALSE]

----------------------------------------------------------------------------
(* logging_service: the sink.                                              *)

\* LogEntry: request_data and response_data are Optional[dict].
LogEntryValid(log_data) ==
    /\ log_data.request_data.tag \in {"None", "dict"}
    /\ log_data.response_data.tag \in {"None", "dict"}

\* create_log: the reply status; stored tells whether writing the line worked.
create_log(log_data, stored) ==
    IF ~LogEntryValid(log_data) THEN 422
    ELSE IF stored THEN 200
    ELSE 500

\* What can happen to the POST: the sink replies, or httpx raises.
SinkBehaviours == {"stores", "store_fails", "ConnectError", "ReadTimeout"}

\* httpx encodes json=log_data with json.dumps before anything is sent.
JsonEncodable(log_data) ==
    /\ JsonDumps(log_data.request_data) = "ok"
    /\ JsonDumps(log_data.response_data) = "ok"

\* send_log with a client that has no timeout (httpx.Client(timeout=None)):
\* when the sink sends no reply the thread stays in client.post.
send_log_without_timeout(t, b) ==
    IF ~JsonEncodable(t.log_data)
    THEN [t EXCEPT !.state = "discarded", !.printed = TRUE]
    ELSE IF b = "ReadTimeout"
    THEN [t EXCEPT !.state = "blocked", !.posts = @ + 1]
    ELSE IF b = "ConnectError" \/ create_log(t.log_data, b = "stores") # 200
    THEN [t EXCEPT !.state = "discarded", !.posts = @ + 1, !.printed = TRUE]
    ELSE [t EXCEPT !.state = "delivered", !.posts = @ + 1]

\* send_log that keeps a record whose POST failed for another attempt.
send_log_requeues(t, b) ==
    IF ~JsonEncodable(t.log_data)
    THEN [t EXCEPT !.state = "discarded", !.printed = TRUE]
    ELSE IF b \in {"ConnectError", "ReadTimeout"} \/ create_log(t.log_data, b = "stores") # 200
    THEN [t EXCEPT !.posts = @ + 1, !.printed = TRUE]
    ELSE [t EXCEPT !.state = "delivered", !.posts = @ + 1]

\* send_log, the body of the thread, under sink behaviour b: the record is
\* delivered, or the failure is printed and the record is gone.  ReadTimeout
\* is what httpx.Client(timeout=5.0) raises when the sink sends no reply.
send_log(t, b) ==
    IF ~JsonEncodable(t.log_data)
    THEN [t EXCEPT !.state = "discarded", !.printed = TRUE]
    ELSE IF b \in {"ConnectError", "ReadTimeout"}
    THEN [t EXCEPT !.state = "discarded", !.posts = @ + 1, !.printed = TRUE]
    ELSE IF create_log(t.log_data, b = "stores") # 200
    THEN [t EXCEPT !.state = "discarded", !.posts = @ + 1, !.printed = TRUE]
    ELSE [t EXCEPT !.state = "delivered", !.posts = @ + 1]

----------------------------------------------------------------------------
(* shared_auth.py: the authentication relay.                               *)

HTTPException(s, d, h) == [status_code |-> s, detail |-> d, www_authenticate |-> h]
NoException == HTTPException(0, "", "")

NoCredential == ""
\* The bearer tokens the user service has issued, one per user: the r-th
\* request is made by the r-th user, or carries no Authorization header.
Tokens == <<"abc123", "def456", "ghi789", "jkl012">>
\* Authorization headers the caller of request r may send.
Credentials(r) == {NoCredential, Tokens[r]}

NoUser == [valid |-> FALSE, user_id |-> NoneId, username |-> "", email |-> ""]
\* The rows of the user service's users table, in the order of Tokens.
Users ==
    <<[valid |-> TRUE, user_id |-> 7, username |-> "alice", email |-> "a@x.com"],
      [valid |-> TRUE, user_id |-> 8, username |-> "bob", email |-> "b@x.com"],
      [valid |-> TRUE, user_id |-> 9, username |-> "carol", email |-> "c@x.com"],
      [valid |-> TRUE, user_id |-> 10, username |-> "dave", email |-> "d@x.com"]>>

\* user_service verify_user_token: the body of the 200 reply for token c.
verify_user_token(c) == Users[CHOOSE i \in DOMAIN Tokens : Tokens[i] = c]

\* The statuses HTTPBearer(auto_error=True) raises for a request without
\* credentials: 403 up to FastAPI 0.121, 401 since.  The repository pins no
\* version and each service is deployed on its own, so the status is a
\* choice made where the request is received.
AutoErrorStatuses == {403, 401}

\* security = HTTPBearer(): the exception for credential c, or NoException.
security(c, build_status) ==
    IF c = NoCredential
    THEN HTTPException(build_status, "Not authenticated",
                       IF build_status = 401 THEN "Bearer" ELSE "")
    ELSE NoException

\* Subclasses of requests.RequestException the except clause catches.
RequestExceptions == {"ConnectionError", "Timeout"}

NoReply == [raises |-> "", status_code |-> 0, body |-> NoUser]
\* The peer accepts the connection and sends nothing: nothing is returned
\* and nothing is raised.
NeverReplies == [raises |-> "(nothing)", status_code |-> 0, body |-> NoUser]
\* What the identity service can do with GET /verify-token for token c.
IdentityReplies(c) ==
    {[raises |-> "", status_code |-> 200, body |-> verify_user_token(c)]}
    \cup {[raises |-> "", status_code |-> s, body |-> NoUser] : s \in {401, 500}}
    \cup {[raises |-> "ConnectionError", status_code |-> 0, body |-> NoUser]}
    \cup {NeverReplies}

\* requests.get(url, headers=headers) against a peer doing b: the reply, the
\* exception, or NeverReplies when the call does not return.  timeout is
\* the timeout argument (NoneId: none given, the socket blocks).
requests_get(b, timeout) ==
    IF b = NeverReplies /\ timeout # NoneId
    THEN [raises |-> "Timeout", status_code |-> 0, body |-> NoUser]
    ELSE b

\* verify_token_with_user_service without the status check: any reply that
\* arrives authenticates.
verify_token_accepts_any_reply(reply) ==
    IF reply.raises \in RequestExceptions
    THEN [raised |-> TRUE, user |-> NoUser,
          exc |-> HTTPException(503, "Authentication service unavailable", "")]
    ELSE [raised |-> FALSE, exc |-> NoException,
          user |-> [valid |-> TRUE, user_id |-> 7, username |-> "alice", email |-> "a@x.com"]]

\* verify_token_with_user_service whose except clause raises the 401 too.
verify_token_unavailable_as_401(reply) ==
    IF reply.raises = "" /\ reply.status_code = 200
    THEN [raised |-> FALSE, user |-> reply.body, exc |-> NoException]
    ELSE [raised |-> TRUE, user |-> NoUser,
          exc |-> HTTPException(401, "Invalid authentication credentials", "Bearer")]

\* verify_token_with_user_service that lets the request through as an
\* anonymous user when the user service cannot be reached.
verify_token_fails_open(reply) ==
    IF reply.raises \in RequestExceptions
    THEN [raised |-> FALSE, exc |-> NoException,
          user |-> [valid |-> TRUE, user_id |-> NoneId, username |-> "anonymous", email |-> ""]]
    ELSE IF reply.status_code = 200
    THEN [raised |-> FALSE, user |-> reply.body, exc |-> NoException]
    ELSE [raised |-> TRUE, user |-> NoUser,
          exc |-> HTTPException(401, "Invalid authentication credentials", "Bearer")]

\* verify_token_with_user_service that builds the identity from user_id
\* alone instead of returning the body of the reply.
verify_token_keeps_user_id_only(reply) ==
    IF reply.raises \in RequestExceptions
    THEN [raised |-> TRUE, user |-> NoUser,
          exc |-> HTTPException(503, "Authentication service unavailable", "")]
    ELSE IF reply.status_code = 200
    THEN [raised |-> FALSE, exc |-> NoException,
          user |-> [valid |-> TRUE, user_id |-> reply.body.user_id, username |-> "", email |-> ""]]
    ELSE [raised |-> TRUE, user |-> NoUser,
          exc |-> HTTPException(401, "Invalid authentication credentials", "Bearer")]

\* AuthService.verify_token_with_user_service, given what requests.get did.
verify_token_with_user_service(reply) ==
    IF reply.raises \in RequestExceptions
    THEN [raised |-> TRUE, user |-> NoUser,
          exc |-> HTTPException(503, "Authentication service unavailable", "")]
    ELSE IF reply.status_code = 200
    THEN [raised |-> FALSE, user |-> reply.body, exc |-> NoException]
    ELSE [raised |-> TRUE, user |-> NoUser,
          exc |-> HTTPException(401, "Invalid authentication credentials", "Bearer")]

----------------------------------------------------------------------------
(* The endpoints.  protected: Depends(require_auth); instrumented: the     *)
(* body calls logger.log_request; try: "envelope" (except HTTPException,   *)
(* except Exception, finally), "except" (except Exception only, no         *)
(* finally) or "none"; biz: the HTTPExceptions the business logic raises;  *)
(* generic: the detail of the 500 raised for any other exception;          *)
(* str_e: error_message = str(e) rather than the generic text; counted:    *)
(* response_data is logged as len(...) or 0.                               *)

\* The routes of Spec: each shape of endpoint the services have.
EndpointNames ==
    {"create_book", "get_book", "get_books", "create_order", "process_payment",
     "process_refund", "add_review", "send_notification", "health_check"}

\* The routes of SpecInstrumented: each shape of endpoint that calls
\* log_request, protected and public.
InstrumentedNames ==
    {"create_book", "get_book", "get_books", "get_user_orders", "login", "health_check"}

Endpoint(svc, path, method, prot, instr, try, biz, generic, str_e, rq, rs, counted) ==
    [service_name |-> svc, endpoint |-> path, method |-> method, protected |-> prot,
     instrumented |-> instr, try |-> try, biz |-> biz, generic |-> generic,
     str_e |-> str_e, request_data |-> rq, response_data |-> rs, counted |-> counted]

create_book ==
    Endpoint("catalog_service", "/books", "POST", TRUE, TRUE, "envelope",
             {HTTPException(400, "Book with this ISBN already exists", "")},
             "Error creating book", FALSE, PyVal("model"), PyVal("orm"), FALSE)

get_book ==
    Endpoint("catalog_service", "/books/{book_id}", "GET", TRUE, TRUE, "envelope",
             {HTTPException(400, "Invalid book ID", ""), HTTPException(404, "Book not found", "")},
             "Error fetching book", TRUE, PyVal("dict"), PyVal("orm"), FALSE)

get_books ==
    Endpoint("catalog_service", "/books", "GET", TRUE, TRUE, "envelope",
             {}, "Error fetching books", TRUE, PyNone, PyVal("int"), TRUE)

create_order ==
    Endpoint("order_service", "/orders", "POST", TRUE, TRUE, "envelope",
             {HTTPException(400, "Order must contain at least one item", "")},
             "Error creating order", FALSE, PyVal("model"), PyVal("orm"), FALSE)

get_user_orders ==
    Endpoint("order_service", "/orders/user/{user_id}", "GET", TRUE, TRUE, "envelope",
             {}, "Error fetching user orders", TRUE, PyVal("dict"), PyVal("int"), TRUE)

login ==
    Endpoint("user_service", "/login", "POST", FALSE, TRUE, "envelope",
             {HTTPException(400, "Username cannot be empty", ""),
              HTTPException(401, "Incorrect username or password", "Bearer")},
             "Error during login", FALSE, PyVal("dict"), PyVal("dict"), FALSE)

process_payment ==
    Endpoint("payment_service", "/payments", "POST", TRUE, TRUE, "envelope",
             {HTTPException(400, "Payment processing failed", "")},
             "Error processing payment", FALSE, PyVal("model"), PyVal("orm"), FALSE)

process_refund ==
    Endpoint("payment_service", "/payments/{payment_id}/refund", "POST", TRUE, FALSE, "none",
             {HTTPException(404, "Payment not found", ""),
              HTTPException(400, "Can only refund completed payments", "")},
             "Internal Server Error", FALSE, PyVal("model"), PyVal("dict"), FALSE)

add_review ==
    Endpoint("review_service", "/reviews", "POST", TRUE, FALSE, "except",
             {HTTPException(400, "User has already reviewed this book", "")},
             "Error creating review", FALSE, PyVal("model"), PyVal("orm"), FALSE)

send_notification ==
    Endpoint("notification_service", "/notifications", "POST", TRUE, FALSE, "except",
             {HTTPException(400, "Invalid user ID", "")},
             "Error creating notification", FALSE, PyVal("model"), PyVal("orm"), FALSE)

health_check ==
    Endpoint("catalog_service", "/health", "GET", FALSE, TRUE, "none",
             {}, "Internal Server Error", FALSE, PyNone, PyVal("dict"), FALSE)

Ep(n) ==
    CASE n = "create_book" -> create_book
      [] n = "get_book" -> get_book
      [] n = "get_books" -> get_books
      [] n = "create_order" -> create_order
      [] n = "get_user_orders" -> get_user_orders
      [] n = "login" -> login
      [] n = "process_payment" -> process_payment
      [] n = "process_refund" -> process_refund
      [] n = "add_review" -> add_review
      [] n = "send_notification" -> send_notification
      [] n = "health_check" -> health_check

\* The user_id path parameter of a request to endpoint n made by user r:
\* the caller's own id or another user's (get_user_orders compares neither).
PathUserIds(n, r) ==
    IF n = "get_user_orders"
    THEN {Users[r].user_id, Users[(r % Len(Users)) + 1].user_id}
    ELSE {NoneId}

\* str(e) of the exceptions the business logic can raise besides HTTPException.
ExcTexts == {"(psycopg2.OperationalError) connection refused"}

NoOutcome == [kind |-> "", exc |-> NoException, text |-> ""]
\* How the business logic of endpoint ep can end.
Outcomes(ep) ==
    {[kind |-> "return", exc |-> NoException, text |-> ""]}
    \cup {[kind |-> "HTTPException", exc |-> e, text |-> ""] : e \in ep.biz}
    \cup (IF ep.try = "none" /\ ep.instrumented THEN {}
          ELSE {[kind |-> "Exception", exc |-> NoException, text |-> t] : t \in ExcTexts})

----------------------------------------------------------------------------
(* The body of an endpoint: what its except clauses and its finally block  *)
(* make of outcome o.                                                      *)

OK == HTTPException(200, "", "")
NoResponse == HTTPException(0, "", "")
\* Starlette's reply to an exception no handler caught.
InternalServerError == HTTPException(500, "Internal Server Error", "")

\* status_code left at its initial 200 by the except clauses.
status_code_unset(o) == 200

\* The local status_code when the finally block runs.
status_code(o) ==
    CASE o.kind = "return" -> 200
      [] o.kind = "HTTPException" -> o.exc.status_code
      [] o.kind = "Exception" -> 500

\* The local error_message when the finally block runs (None is "").
error_message(ep, o) ==
    CASE o.kind = "return" -> ""
      [] o.kind = "HTTPException" -> o.exc.detail
      [] o.kind = "Exception" -> IF ep.str_e THEN o.text ELSE ep.generic

\* The local variable user of login_for_access_token when endpoint n, called
\* by user r, ended as o: the row authenticate_user returned when the
\* password was right, nothing otherwise and in every other endpoint.
login_user(n, o, r) ==
    IF n = "login" /\ o.kind = "return" THEN Users[r] ELSE NoUser

\* user_id with the path parameter logged in place of the caller's id.
log_user_id_of_path(ep, user, path_user_id, authenticated) ==
    IF path_user_id # NoneId THEN path_user_id
    ELSE IF ep.protected THEN user.user_id
    ELSE authenticated.user_id

\* The user_id argument of log_request: current_user.get('user_id') in a
\* protected endpoint; in a public one None, but getattr(user, 'id', None)
\* in login.
log_user_id(ep, user, path_user_id, authenticated) ==
    IF ep.protected THEN user.user_id ELSE authenticated.user_id

\* The response_data argument of log_request.
response_data(ep, o) ==
    IF ep.counted THEN PyVal("int")
    ELSE IF o.kind = "return" THEN ep.response_data
    ELSE PyNone

\* propagated with detail=str(e) in the except Exception clause.
propagated_leaks(ep, o) ==
    CASE o.kind = "return" -> OK
      [] o.kind = "HTTPException" -> o.exc
      [] o.kind = "Exception" -> HTTPException(500, o.text, "")

\* The session operations that write (db.add, db.delete, db.commit) issued
\* by the business logic of endpoint n when it ends as o: none in the
\* reading endpoints, none when a check raised before the first write
\* (process_payment commits the failed payment before it raises).
db_writes(n, o) ==
    IF n \in {"get_book", "get_books", "get_user_orders", "health_check"} THEN {}
    ELSE IF o.kind = "HTTPException" /\ o.exc.detail # "Payment processing failed" THEN {}
    ELSE {"add", "commit"}

\* propagated without the except HTTPException clause: the business error
\* falls into except Exception and leaves as the generic 500.
propagated_wraps_http_exception(ep, o) ==
    CASE o.kind = "return" -> OK
      [] o.kind = "HTTPException" ->
            IF ep.try = "envelope" THEN HTTPException(500, ep.generic, "") ELSE o.exc
      [] o.kind = "Exception" ->
            IF ep.try = "none" THEN InternalServerError
            ELSE HTTPException(500, ep.generic, "")

\* What the body returns or raises to FastAPI, as the caller's response.
propagated(ep, o) ==
    CASE o.kind = "return" -> OK
      [] o.kind = "HTTPException" -> o.exc
      [] o.kind = "Exception" ->
            IF ep.try = "none" THEN InternalServerError
            ELSE HTTPException(500, ep.generic, "")

\* An exception raised inside finally replaces the one in flight.
finally(resp, lr) == IF lr.raised # "" THEN InternalServerError ELSE resp

----------------------------------------------------------------------------
NoRequest == [endpoint |-> "", credential |-> NoCredential, path_user_id |-> NoneId]

Init ==
    /\ pc = [r \in Req |-> "START"]
    /\ request = [r \in Req |-> NoRequest]
    /\ auth_reply = [r \in Req |-> NoReply]
    /\ verify_calls = [r \in Req |-> 0]
    /\ current_user = [r \in Req |-> NoUser]
    /\ outcome = [r \in Req |-> NoOutcome]
    /\ response = [r \in Req |-> NoResponse]
    /\ log_calls = [o \in {Direct} \cup Req |-> 0]
    /\ threads = [o \in {Direct} \cup Req |-> <<>>]
    /\ now = 1
    /\ log_file = <<>>
    /\ users = <<>>
    /\ tokens = {}
    /\ payments = <<>>
    /\ orders = <<>>
    /\ order_items = <<>>
    /\ reviews = <<>>
    /\ session = [p \in Proc |-> Idle]
    /\ last = NoOp

\* A request arrives at one of the routes in names; FastAPI resolves
\* Depends(require_auth) up to the outbound call: security, then
\* get_current_user starts requests.get.
ReceiveAt(r, names) ==
    /\ pc[r] = "START"
    /\ \E n \in names, c \in Credentials(r), build_status \in AutoErrorStatuses :
        LET ep == Ep(n)
            exc == security(c, build_status)
        IN  /\ ep.protected \/ c = NoCredential   \* a public endpoint reads no header
            /\ \E p \in PathUserIds(n, r) :
                  request' = [request EXCEPT ![r] =
                                 [endpoint |-> n, credential |-> c, path_user_id |-> p]]
            /\ IF ~ep.protected
               THEN /\ pc' = [pc EXCEPT ![r] = "EXECUTING"]
                    /\ UNCHANGED <<verify_calls, response>>
               ELSE IF exc # NoException
               THEN /\ pc' = [pc EXCEPT ![r] = "RESPONDED"]
                    /\ response' = [response EXCEPT ![r] = exc]
                    /\ UNCHANGED verify_calls
               ELSE /\ pc' = [pc EXCEPT ![r] = "AUTHENTICATING"]
                    /\ verify_calls' = [verify_calls EXCEPT ![r] = @ + 1]
                    /\ UNCHANGED response
    /\ UNCHANGED <<auth_reply, current_user, outcome, log_calls, threads>>
    /\ UNCHANGED services

Receive(r) == ReceiveAt(r, EndpointNames)

ReceiveInstrumented(r) == ReceiveAt(r, InstrumentedNames)

\* VerifyToken that calls /verify-token a second time when the first call
\* raised a RequestException.
VerifyToken_retries(r) ==
    /\ pc[r] = "AUTHENTICATING"
    /\ auth_reply[r] = NoReply
    /\ \E b \in IdentityReplies(request[r].credential) :
        LET reply == requests_get(b, NoneId)
            res == verify_token_with_user_service(reply)
        IN  IF reply.raises \in RequestExceptions /\ verify_calls[r] < 2
            THEN /\ verify_calls' = [verify_calls EXCEPT ![r] = @ + 1]
                 /\ UNCHANGED <<auth_reply, pc, current_user, response>>
            ELSE /\ auth_reply' = [auth_reply EXCEPT ![r] = reply]
                 /\ UNCHANGED verify_calls
                 /\ IF reply = NeverReplies
                    THEN UNCHANGED <<pc, current_user, response>>
                    ELSE IF res.raised
                    THEN /\ pc' = [pc EXCEPT ![r] = "RESPONDED"]
                         /\ response' = [response EXCEPT ![r] = res.exc]
                         /\ UNCHANGED current_user
                    ELSE /\ pc' = [pc EXCEPT ![r] = "EXECUTING"]
                         /\ current_user' = [current_user EXCEPT ![r] = res.user]
                         /\ UNCHANGED response
    /\ UNCHANGED <<request, outcome, log_calls, threads>>
    /\ UNCHANGED services

\* requests.get returns, raises or blocks; verify_token_with_user_service
\* maps what it returned or raised.
VerifyToken(r) ==
    /\ pc[r] = "AUTHENTICATING"
    /\ auth_reply[r] = NoReply
    /\ \E b \in IdentityReplies(request[r].credential) :
        LET reply == requests_get(b, NoneId)
            res == verify_token_with_user_service(reply)
        IN  /\ auth_reply' = [auth_reply EXCEPT ![r] = reply]
            /\ IF reply = NeverReplies
               THEN UNCHANGED <<pc, current_user, response>>
               ELSE IF res.raised
               THEN /\ pc' = [pc EXCEPT ![r] = "RESPONDED"]
                    /\ response' = [response EXCEPT ![r] = res.exc]
                    /\ UNCHANGED current_user
               ELSE /\ pc' = [pc EXCEPT ![r] = "EXECUTING"]
                    /\ current_user' = [current_user EXCEPT ![r] = res.user]
                    /\ UNCHANGED response
    /\ UNCHANGED <<request, verify_calls, outcome, log_calls, threads>>
    /\ UNCHANGED services

\* The endpoint function runs: business logic, except clauses, finally.
EndpointBody(r) ==
    /\ pc[r] = "EXECUTING"
    /\ \E o \in Outcomes(Ep(request[r].endpoint)) :
        LET ep == Ep(request[r].endpoint)
            user_id == log_user_id(ep, current_user[r], request[r].path_user_id,
                                   login_user(request[r].endpoint, o, r))
            lr == log_request(ep.service_name, ep.endpoint, ep.method, status_code(o),
                              user_id, ep.request_data, response_data(ep, o),
                              error_message(ep, o))
            started == send_log_async(lr.log_data)
        IN  /\ outcome' = [outcome EXCEPT ![r] = o]
            /\ IF ~ep.instrumented
               THEN /\ response' = [response EXCEPT ![r] = propagated(ep, o)]
                    /\ pc' = [pc EXCEPT ![r] = "RESPONDED"]
                    /\ UNCHANGED <<log_calls, threads>>
               ELSE /\ log_calls' = [log_calls EXCEPT ![r] = @ + 1]
                    /\ response' = [response EXCEPT ![r] = finally(propagated(ep, o), lr)]
                    /\ IF lr.raised # ""
                       THEN /\ pc' = [pc EXCEPT ![r] = "RESPONDED"]
                            /\ UNCHANGED threads
                       ELSE /\ threads' = [threads EXCEPT ![r] = Append(@, started.thread)]
                            /\ pc' = [pc EXCEPT ![r] =
                                        IF started.join THEN "SINK_WAIT" ELSE "RESPONDED"]
    /\ UNCHANGED <<request, auth_reply, verify_calls, current_user>>
    /\ UNCHANGED services

\* A send_log thread runs to its end.
SendLog(o, i) ==
    /\ i \in 1..Len(threads[o])
    /\ threads[o][i].state = "started"
    /\ \E b \in SinkBehaviours :
        threads' = [threads EXCEPT ![o][i] = send_log(@, b)]
    /\ pc' = [r \in Req |-> IF r = o /\ pc[r] = "SINK_WAIT" THEN "RESPONDED" ELSE pc[r]]
    /\ UNCHANGED <<request, auth_reply, verify_calls, current_user,
                   outcome, response, log_calls>>
    /\ UNCHANGED services

\* Some code calls logger.log_request directly with arbitrary payloads.
DirectLogRequest ==
    /\ log_calls[Direct] < MaxCalls
    /\ \E rq \in PyValues, rs \in PyValues, s \in {200, 500} :
        LET lr == log_request("catalog_service", "/books", "POST", s, NoneId, rq, rs,
                              IF s = 200 THEN "" ELSE "Error creating book")
        IN  /\ log_calls' = [log_calls EXCEPT ![Direct] = @ + 1]
            /\ threads' = IF lr.raised # "" THEN threads
                          ELSE [threads EXCEPT ![Direct] =
                                   Append(@, send_log_async(lr.log_data).thread)]
    /\ UNCHANGED <<pc, request, auth_reply, verify_calls, current_user,
                   outcome, response>>
    /\ UNCHANGED services

Next ==
    \/ \E r \in Req : Receive(r)
    \/ \E r \in Req : VerifyToken(r)
    \/ \E r \in Req : EndpointBody(r)
    \/ \E r \in Req, i \in 1..MaxReq : SendLog(r, i)

Spec == Init /\ [][Next]_vars

NextEmitter ==
    \/ DirectLogRequest
    \/ \E i \in 1..(MaxCalls + 1) : SendLog(Direct, i)

SpecEmitter == Init /\ [][NextEmitter]_vars

\* A call or a thread that can take its next step does take it: the
\* interpreter schedules every runnable thread.
SpecLive ==
    /\ Init /\ [][Next]_vars
    /\ \A r \in Req : WF_vars(VerifyToken(r)) /\ WF_vars(EndpointBody(r))
    /\ \A r \in Req, i \in 1..MaxReq : WF_vars(SendLog(r, i))

SpecEmitterLive ==
    /\ Init /\ [][NextEmitter]_vars
    /\ \A i \in 1..(MaxCalls + 1) : WF_vars(SendLog(Direct, i))

NextInstrumented ==
    \/ \E r \in Req : ReceiveInstrumented(r)
    \/ \E r \in Req : VerifyToken(r)
    \/ \E r \in Req : EndpointBody(r)
    \/ \E r \in Req, i \in 1..MaxReq : SendLog(r, i)

SpecInstrumented == Init /\ [][NextInstrumented]_vars

----------------------------------------------------------------------------
(* Properties.                                                             *)

EpOf(r) == Ep(request[r].endpoint)
BodyRan(r) == outcome[r] # NoOutcome
Responded(r) == pc[r] = "RESPONDED"

\* C1: whenever the body of an instrumented endpoint has run, however it
\* ended, log_request was called exactly once, and the status_code of the
\* record equals the status the caller receives: 200 on return, the
\* HTTPException's status on a business error, 500 on any other exception.
C1_OneRecordWithCallerStatus ==
    \A r \in Req :
        (BodyRan(r) /\ EpOf(r).instrumented) =>
            /\ log_calls[r] = 1
            /\ Len(threads[r]) = 1
            /\ threads[r][1].log_data.status_code = response[r].status_code
            /\ outcome[r].kind = "return" => response[r].status_code = 200
            /\ outcome[r].kind = "HTTPException" =>
                   response[r].status_code = outcome[r].exc.status_code
            /\ outcome[r].kind = "Exception" => response[r].status_code = 500

\* A business error of an instrumented endpoint: a 404 answered and recorded.
C1_Witness ==
    \E r \in Req :
        /\ BodyRan(r)
        /\ EpOf(r).instrumented
        /\ outcome[r].kind = "HTTPException"
        /\ response[r].status_code = 404
        /\ Len(threads[r]) = 1
        /\ threads[r][1].log_data.status_code = 404

\* C2: every protected request that has been answered, the ones rejected by
\* require_auth included, has emitted exactly one record.
C2_RecordOnEveryExit ==
    \A r \in Req :
        (Responded(r) /\ EpOf(r).protected /\ EpOf(r).instrumented) => log_calls[r] = 1

\* C3: a protected request without Authorization header is answered 401
\* and no call to the identity service is made.
C3_MissingCredentialIs401 ==
    \A r \in Req :
        (Responded(r) /\ EpOf(r).protected /\ request[r].credential = NoCredential) =>
            /\ response[r].status_code = 401
            /\ verify_calls[r] = 0

\* C4: when /verify-token replies with a status other than 200, no identity
\* is returned, the endpoint body never runs and the caller receives 401
\* "Invalid authentication credentials" with a WWW-Authenticate challenge.
C4_NonSuccessReplyIsRejected ==
    \A r \in Req :
        (auth_reply[r].raises = "" /\ auth_reply[r].status_code \notin {0, 200}) =>
            /\ current_user[r] = NoUser
            /\ ~BodyRan(r)
            /\ Responded(r)
            /\ response[r].status_code = 401
            /\ response[r].detail = "Invalid authentication credentials"
            /\ response[r].www_authenticate = "Bearer"

\* The identity service answered 500 and the caller got 401.
C4_Witness ==
    \E r \in Req :
        /\ auth_reply[r].status_code = 500
        /\ Responded(r)
        /\ response[r].status_code = 401

\* C5: when the call to the identity service fails at the network level,
\* the caller receives 503 "Authentication service unavailable", never 401
\* and never an identity.
C5_NetworkFailureIs503 ==
    \A r \in Req :
        auth_reply[r].raises \in RequestExceptions =>
            /\ current_user[r] = NoUser
            /\ ~BodyRan(r)
            /\ Responded(r)
            /\ response[r].status_code = 503
            /\ response[r].detail = "Authentication service unavailable"

\* The connection was refused and the caller got 503.
C5_Witness ==
    \E r \in Req :
        /\ auth_reply[r].raises = "ConnectionError"
        /\ Responded(r)
        /\ response[r].status_code = 503

\* C6: log_request returns without waiting for the sink: no request is ever
\* waiting on its dispatch, and once log_request was called the response
\* is out, whatever the state of the send_log thread.
C6_NeverWaitsOnSink ==
    \A r \in Req :
        /\ pc[r] # "SINK_WAIT"
        /\ log_calls[r] > 0 => Responded(r)

\* A request has its response while its own dispatch is still in flight.
C6_Witness ==
    \E r \in Req :
        /\ Responded(r)
        /\ Len(threads[r]) = 1
        /\ threads[r][1].state = "started"

\* C7: whatever happens to the telemetry (payload that json.dumps refuses,
\* sink unreachable, sink non-200, timeout), the caller receives what the
\* business logic produced, and every call of log_request returned normally
\* (it started its dispatch).
C7_TelemetryNeverChangesResponse ==
    \A r \in Req :
        BodyRan(r) =>
            /\ log_calls[r] = Len(threads[r])
            /\ outcome[r].kind = "return" => response[r] = OK
            /\ outcome[r].kind = "HTTPException" => response[r] = outcome[r].exc
            /\ outcome[r].kind = "Exception" =>
                   /\ response[r].status_code = 500
                   /\ response[r].detail \notin ExcTexts

\* A successful request whose response_data (an ORM row) json.dumps refused
\* and whose dispatch failed: the caller still has its 200.
C7_Witness ==
    \E r \in Req :
        /\ BodyRan(r)
        /\ outcome[r].kind = "return"
        /\ Len(threads[r]) = 1
        /\ threads[r][1].log_data.response_data = PyStr(PyVal("orm"))
        /\ threads[r][1].state = "discarded"
        /\ response[r] = OK

\* C8: for every payload handed to log_request, a record is handed to a
\* dispatch and that dispatch posts it to the sink; a value json.dumps
\* refuses travels as its str().
C8_UnencodablePayloadStillSent ==
    /\ log_calls[Direct] = Len(threads[Direct])
    /\ \A i \in 1..Len(threads[Direct]) :
          threads[Direct][i].state # "started" => threads[Direct][i].posts = 1

\* C9: when the business logic of an instrumented endpoint raises an
\* exception other than HTTPException, the caller receives 500 with the
\* endpoint's fixed detail, which is none of the exception's text, and one
\* record with status_code 500 and a non-empty error_message is emitted.
C9_UnexpectedFaultIsGeneric500 ==
    \A r \in Req :
        (BodyRan(r) /\ EpOf(r).instrumented /\ outcome[r].kind = "Exception") =>
            /\ response[r].status_code = 500
            /\ response[r].detail = EpOf(r).generic
            /\ response[r].detail \notin ExcTexts
            /\ response[r].detail # outcome[r].text
            /\ log_calls[r] = 1
            /\ Len(threads[r]) = 1
            /\ threads[r][1].log_data.status_code = 500
            /\ threads[r][1].log_data.error_message # ""

\* get_book hit a database error: 500 "Error fetching book" to the caller,
\* str(e) in the record.
C9_Witness ==
    \E r \in Req :
        /\ BodyRan(r)
        /\ request[r].endpoint = "get_book"
        /\ outcome[r].kind = "Exception"
        /\ response[r] = HTTPException(500, "Error fetching book", "")
        /\ Len(threads[r]) = 1
        /\ threads[r][1].log_data.error_message = outcome[r].text

\* C10: every request that reached the business logic of any endpoint has
\* produced a record.
C10_EveryEndpointEnveloped ==
    \A r \in Req : BodyRan(r) => log_calls[r] = 1

----------------------------------------------------------------------------
\* The terminal states of the request lifecycle that answered request r is
\* in: rejected by require_auth, or the way its body ended.
TerminalStates(r) ==
    {t \in {"REJECTED", "SUCCEEDED", "FAILED_EXPECTED", "FAILED_UNEXPECTED"} :
        /\ Responded(r)
        /\ CASE t = "REJECTED" -> ~BodyRan(r) /\ response[r].status_code \in {401, 403, 503}
             [] t = "SUCCEEDED" -> outcome[r].kind = "return" /\ response[r] = OK
             [] t = "FAILED_EXPECTED" ->
                    outcome[r].kind = "HTTPException" /\ response[r] = outcome[r].exc
             [] t = "FAILED_UNEXPECTED" ->
                    outcome[r].kind = "Exception" /\ response[r].status_code = 500}

\* C11: every answered request is in exactly one of the terminal states
\* REJECTED, SUCCEEDED, FAILED_EXPECTED, FAILED_UNEXPECTED, and log_request
\* was called for it once, whichever state that is.
C11_TelemetryOnEveryTerminal ==
    \A r \in Req :
        Responded(r) =>
            /\ Cardinality(TerminalStates(r)) = 1
            /\ log_calls[r] = 1

\* C12: every call of log_request started at most one dispatch, and every
\* dispatch issued at most one POST to /logs: a delivered record was posted
\* once, a discarded one was posted at most once and its failure printed.
C12_AtMostOnePost ==
    \A r \in Req :
        /\ Len(threads[r]) <= log_calls[r]
        /\ \A i \in 1..Len(threads[r]) :
              LET t == threads[r][i]
              IN  /\ t.posts <= 1
                  /\ t.state = "started" => t.posts = 0 /\ ~t.printed
                  /\ t.state = "delivered" => t.posts = 1 /\ ~t.printed
                  /\ t.state = "discarded" => t.printed

\* One request's record was posted, failed and is gone; the record of the
\* other request was delivered.
C12_Witness ==
    \E r \in Req, q \in Req :
        /\ r # q
        /\ Len(threads[r]) = 1
        /\ threads[r][1].state = "discarded"
        /\ threads[r][1].posts = 1
        /\ JsonEncodable(threads[r][1].log_data)
        /\ LogEntryValid(threads[r][1].log_data)
        /\ Len(threads[q]) = 1
        /\ threads[q][1].state = "delivered"

\* C13: a received request has caused exactly one GET /verify-token when it
\* is to a protected endpoint and carries a credential, and none otherwise,
\* whatever that call returned or raised; and the identity a body runs with
\* was obtained by the request's own call, for its own credential.
C13_OneVerifyCallPerRequest ==
    \A r \in Req :
        pc[r] # "START" =>
            /\ verify_calls[r] =
                  IF EpOf(r).protected /\ request[r].credential # NoCredential THEN 1 ELSE 0
            /\ current_user[r] # NoUser =>
                  /\ verify_calls[r] = 1
                  /\ auth_reply[r].status_code = 200
                  /\ current_user[r] = verify_user_token(request[r].credential)

\* Two requests with credentials: the call of one failed and was not
\* repeated, the other was verified by a call of its own.
C13_Witness ==
    \E r \in Req, q \in Req :
        /\ r # q
        /\ auth_reply[r].raises = "ConnectionError"
        /\ Responded(r)
        /\ verify_calls[r] = 1
        /\ current_user[q] = Users[q]
        /\ verify_calls[q] = 1

\* The database writes request r has performed.
DbWrites(r) == IF BodyRan(r) THEN db_writes(request[r].endpoint, outcome[r]) ELSE {}

\* C14: the body of a protected endpoint starts only after the request's
\* own verification call returned 200 with an identity; a request whose
\* credential is missing, rejected or could not be verified never enters
\* the body and performs no database write.
C14_NoWriteBeforeIdentity ==
    \A r \in Req :
        (pc[r] # "START" /\ EpOf(r).protected) =>
            /\ (pc[r] = "EXECUTING" \/ BodyRan(r)) =>
                  /\ request[r].credential # NoCredential
                  /\ auth_reply[r].status_code = 200
                  /\ current_user[r] = auth_reply[r].body
            /\ (request[r].credential = NoCredential \/ auth_reply[r].status_code # 200) =>
                  /\ pc[r] # "EXECUTING"
                  /\ ~BodyRan(r)
                  /\ DbWrites(r) = {}

\* POST /books with a token the user service answered 401 for: answered,
\* nothing written; the same request by a verified user added and committed.
C14_Witness ==
    \E r \in Req, q \in Req :
        /\ request[r].endpoint = "create_book"
        /\ auth_reply[r].status_code = 401
        /\ Responded(r)
        /\ DbWrites(r) = {}
        /\ request[q].endpoint = "create_book"
        /\ current_user[q] = Users[q]
        /\ DbWrites(q) = {"add", "commit"}

\* C15: when the business logic raised an HTTPException with status s and
\* detail d, the caller receives status s and detail d, and the record of
\* an instrumented endpoint carries s and d too.
C15_BusinessErrorPassesUnchanged ==
    \A r \in Req :
        (BodyRan(r) /\ outcome[r].kind = "HTTPException") =>
            /\ Responded(r)
            /\ response[r].status_code = outcome[r].exc.status_code
            /\ response[r].detail = outcome[r].exc.detail
            /\ EpOf(r).instrumented =>
                  /\ Len(threads[r]) = 1
                  /\ threads[r][1].log_data.status_code = outcome[r].exc.status_code
                  /\ threads[r][1].log_data.error_message = outcome[r].exc.detail

\* create_book refused a duplicate ISBN: the caller has the 400 and its
\* detail.
C15_Witness ==
    \E r \in Req :
        /\ request[r].endpoint = "create_book"
        /\ outcome[r].kind = "HTTPException"
        /\ Responded(r)
        /\ response[r] = HTTPException(400, "Book with this ISBN already exists", "")

\* C16: when /verify-token replied 200, the identity of the request is the
\* body of that reply (the user id, username and email the user service
\* sent for the token), the request goes on to the endpoint body, and what
\* the caller receives is none of the responses of the authentication relay.
C16_SuccessReplyAuthenticates ==
    \A r \in Req :
        auth_reply[r].status_code = 200 =>
            /\ current_user[r] = auth_reply[r].body
            /\ current_user[r] = verify_user_token(request[r].credential)
            /\ pc[r] \in {"EXECUTING", "RESPONDED"}
            /\ Responded(r) =>
                  /\ BodyRan(r)
                  /\ response[r].detail \notin
                        {"Not authenticated", "Invalid authentication credentials",
                         "Authentication service unavailable"}

\* Credential "abc123", reply {7, "alice", "a@x.com"} with status 200: the
\* body ran as alice and returned.
C16_Witness ==
    \E r \in Req :
        /\ request[r].credential = "abc123"
        /\ auth_reply[r].status_code = 200
        /\ current_user[r] =
              [valid |-> TRUE, user_id |-> 7, username |-> "alice", email |-> "a@x.com"]
        /\ BodyRan(r)
        /\ outcome[r].kind = "return"
        /\ response[r] = OK

\* C17: every request that is waiting for the reply of /verify-token
\* eventually leaves AUTHENTICATING: the call returns an identity, a 401 or,
\* at the latest when its timeout expires, a 503.
C17_VerificationReturns ==
    \A r \in Req : (pc[r] = "AUTHENTICATING") ~> (pc[r] # "AUTHENTICATING")

\* The dispatch i of the direct log_request calls is in flight / has ended.
InFlight(i) == i <= Len(threads[Direct]) /\ threads[Direct][i].state = "started"
Terminated(i) ==
    i <= Len(threads[Direct]) /\ threads[Direct][i].state \in {"delivered", "discarded"}

\* C18: every send_log thread that was started eventually ends, its record
\* delivered or discarded, whatever the sink does, also when it never
\* replies.
C18_DispatchTerminates ==
    \A i \in 1..(MaxCalls + 1) : InFlight(i) ~> Terminated(i)

\* A record the sink would have accepted was posted and then given up: the
\* dispatch ended without a reply.
C18_Witness ==
    /\ Terminated(1)
    /\ threads[Direct][1].state = "discarded"
    /\ threads[Direct][1].posts = 1
    /\ LogEntryValid(threads[Direct][1].log_data)

\* C19: however the requests of one instance interleave, the record of
\* every dispatch, in flight, delivered or discarded, has all its fields
\* from the request that called log_request: its endpoint, method, status,
\* caller, payload summaries and error message.
C19_RecordFromOneRequest ==
    \A r \in Req :
        \A i \in 1..Len(threads[r]) :
            LET d == threads[r][i].log_data
                ep == EpOf(r)
            IN  /\ d.service_name = ep.service_name
                /\ d.endpoint = ep.endpoint
                /\ d.method = ep.method
                /\ d.status_code = status_code(outcome[r])
                /\ d.user_id = IF ep.protected THEN current_user[r].user_id
                               ELSE login_user(request[r].endpoint, outcome[r], r).user_id
                /\ d.request_data = safe_serialize(ep.request_data).value
                /\ d.response_data = safe_serialize(response_data(ep, outcome[r])).value
                /\ d.error_message = error_message(ep, outcome[r])

\* Two requests of different users to different endpoints, both recorded:
\* the dispatch of one failed, the record of the other was delivered.
C19_Witness ==
    \E r \in Req, q \in Req :
        /\ Len(threads[r]) = 1
        /\ Len(threads[q]) = 1
        /\ threads[r][1].log_data.user_id # NoneId
        /\ threads[q][1].log_data.user_id # NoneId
        /\ threads[r][1].log_data.user_id # threads[q][1].log_data.user_id
        /\ threads[r][1].log_data.endpoint # threads[q][1].log_data.endpoint
        /\ threads[r][1].state = "discarded"
        /\ threads[q][1].state = "delivered"

\* C20: the user_id of every record of a protected endpoint is the user_id
\* of the identity verified for that request, and the user_id of every
\* record of a public endpoint is null.
C20_CallerIdOrNull ==
    \A r \in Req :
        \A i \in 1..Len(threads[r]) :
            threads[r][i].log_data.user_id =
                IF EpOf(r).protected THEN current_user[r].user_id ELSE NoneId

\* C20 (amended): the user_id of every record of a protected endpoint is
\* the user_id of the identity verified for that request, whatever user_id
\* its path names; the user_id of a record of a public endpoint is null,
\* except for a successful login, whose record carries the id of the user
\* that logged in.
C20_CallerIdOrLoginId ==
    \A r \in Req :
        \A i \in 1..Len(threads[r]) :
            LET d == threads[r][i].log_data
            IN  /\ EpOf(r).protected =>
                      /\ d.user_id = verify_user_token(request[r].credential).user_id
                      /\ d.user_id = current_user[r].user_id
                /\ ~EpOf(r).protected =>
                      d.user_id = IF request[r].endpoint = "login" /\ outcome[r].kind = "return"
                                  THEN Users[r].user_id ELSE NoneId

\* get_user_orders asked for another user's orders: the record carries the
\* caller's id; a health check was recorded with user_id null.
C20_Witness ==
    \E r \in Req, q \in Req :
        /\ request[r].endpoint = "get_user_orders"
        /\ request[r].path_user_id # current_user[r].user_id
        /\ Len(threads[r]) = 1
        /\ threads[r][1].log_data.user_id = current_user[r].user_id
        /\ threads[r][1].log_data.user_id # NoneId
        /\ request[q].endpoint = "health_check"
        /\ Len(threads[q]) = 1
        /\ threads[q][1].log_data.user_id = NoneId

----------------------------------------------------------------------------
\* C21: every record log_request hands to a dispatch satisfies the sink's
\* LogEntry schema, so that create_log answers 200 for it whenever the
\* sink can write its line.
C21_EveryRecordAccepted ==
    \A r \in Req :
        \A i \in 1..Len(threads[r]) :
            /\ LogEntryValid(threads[r][i].log_data)
            /\ create_log(threads[r][i].log_data, TRUE) = 200

\* ---------------------------------------------------------------------------
\* User service (user_service/main.py): table users, login, verify-token.
\* The finally clause of each handler calls log_request; that call is the
\* emitter modelled above and leaves the tables alone.
\* ---------------------------------------------------------------------------

Usernames == {"ann", "bob"}
\* A username of fewer than 3 characters after strip().
ShortUsernames == {"al"}
Emails == {"a@x.com", "b@x.com"}
\* A field an update leaves unset (exclude_unset=True drops it).
Unset == ""

\* The response of a data operation: what it was, the status and detail the
\* caller got, the row id it concerned and the user id it answered with.
Reply(op, code, detail, id, user_id) == [op |-> op, status_code |-> code, detail |-> detail, id |-> id, user_id |-> user_id]

\* A row of table users; a deleted row keeps its id and nothing else.
User(username, email) == [live |-> TRUE, username |-> username, email |-> email]
DeletedUser == [live |-> FALSE, username |-> "", email |-> ""]

\* db.query(User).filter(User.username == username): the ids that match.
UsersByUsername(tbl, username) == {i \in DOMAIN tbl : tbl[i].live /\ tbl[i].username = username}
UsersByEmail(tbl, email) == {i \in DOMAIN tbl : tbl[i].live /\ tbl[i].email = email}

\* The unique indexes of table users (username, email), checked by the
\* database at commit.
UsersConstraint_absent(tbl) == TRUE
UsersConstraint(tbl) == \A i, j \in DOMAIN tbl : (i # j /\ tbl[i].live /\ tbl[j].live) => (tbl[i].username # tbl[j].username /\ tbl[i].email # tbl[j].email)

\* The payload create_access_token signs at login: the username, no id.
\* issued_to records the id of the user login answered, for the properties.
create_access_token(user_id, tbl) == [sub |-> tbl[user_id].username, issued_to |-> user_id]

\* get_current_user: the rows whose username is the token's sub; .first()
\* takes one of them, and none is a 401.
get_current_user(tbl, token) == UsersByUsername(tbl, token.sub)

\* Some caller of a protected route of the user service holds a token that
\* get_current_user accepts.
Authenticated == \E t \in tokens : get_current_user(users, t) # {}

UsersUnchanged == UNCHANGED <<now, log_file, payments, orders, order_items, reviews>>

\* login_for_access_token.
Login(username, password_ok) ==
    /\ Cardinality(tokens) < MaxTokens
    /\ LET found == UsersByUsername(users, username) IN
       IF found = {} \/ ~password_ok
       THEN /\ last' = Reply("login", 401, "Incorrect username or password", NoneId, NoneId)
            /\ UNCHANGED tokens
       ELSE \E id \in found :
                /\ tokens' = tokens \cup {create_access_token(id, users)}
                /\ last' = Reply("login", 200, "bearer", NoneId, NoneId)
    /\ UNCHANGED <<users, session>>
    /\ UsersUnchanged
    /\ UNCHANGED mechanism

\* verify_user_token behind Depends(get_current_user).
VerifyUserToken(t) ==
    /\ t \in tokens
    /\ LET found == get_current_user(users, t) IN
       IF found = {}
       THEN last' = Reply("verify_token", 401, "Invalid authentication credentials", t.issued_to, NoneId)
       ELSE \E id \in found : last' = Reply("verify_token", 200, "", t.issued_to, id)
    /\ UNCHANGED <<users, tokens, session>>
    /\ UsersUnchanged
    /\ UNCHANGED mechanism

\* create_user up to db.add: the validations and the two lookups.
CreateUserCheck(p, username, email, password_long) ==
    /\ session[p] = Idle
    /\ Len(users) + Cardinality({q \in Proc : session[q].op = "create_user"}) < MaxRows
    /\ IF username \in ShortUsernames
       THEN /\ last' = Reply("create_user", 400, "Username must be at least 3 characters long", NoneId, NoneId)
            /\ UNCHANGED session
       ELSE IF ~password_long
       THEN /\ last' = Reply("create_user", 400, "Password must be at least 6 characters long", NoneId, NoneId)
            /\ UNCHANGED session
       ELSE IF UsersByUsername(users, username) # {}
       THEN /\ last' = Reply("create_user", 400, "Username already registered", NoneId, NoneId)
            /\ UNCHANGED session
       ELSE IF UsersByEmail(users, email) # {}
       THEN /\ last' = Reply("create_user", 400, "Email already registered", NoneId, NoneId)
            /\ UNCHANGED session
       ELSE /\ session' = [session EXCEPT ![p] = [op |-> "create_user", step |-> "checked", id |-> NoneId, n |-> NoneId, a |-> username, b |-> email]]
            /\ UNCHANGED last
    /\ UNCHANGED <<users, tokens>>
    /\ UsersUnchanged
    /\ UNCHANGED mechanism

\* create_user with a commit that succeeds whatever the table holds.
CreateUserCommit_unchecked(p) ==
    /\ session[p].op = "create_user"
    /\ users' = Append(users, User(session[p].a, session[p].b))
    /\ last' = Reply("create_user", 200, "", Len(users) + 1, NoneId)
    /\ session' = [session EXCEPT ![p] = Idle]
    /\ UNCHANGED tokens
    /\ UsersUnchanged
    /\ UNCHANGED mechanism

\* create_user from db.add to the return: the commit, and the rollback and
\* 500 of the except clause when the commit raises.
CreateUserCommit(p) ==
    /\ session[p].op = "create_user"
    /\ LET row == User(session[p].a, session[p].b)
           tbl == Append(users, row)
       IN  IF UsersConstraint(tbl)
           THEN /\ users' = tbl
                /\ last' = Reply("create_user", 200, "", Len(tbl), NoneId)
           ELSE /\ UNCHANGED users
                /\ last' = Reply("create_user", 500, "Error creating user", NoneId, NoneId)
    /\ session' = [session EXCEPT ![p] = Idle]
    /\ UNCHANGED tokens
    /\ UsersUnchanged
    /\ UNCHANGED mechanism

\* update_user up to the setattr loop; "" stands for a field left unset.
UpdateUserCheck(p, user_id, username, email) ==
    /\ session[p] = Idle
    /\ IF ~Authenticated
       THEN /\ last' = Reply("update_user", 401, "Invalid authentication credentials", NoneId, NoneId)
            /\ UNCHANGED session
       ELSE IF user_id \notin DOMAIN users \/ ~users[user_id].live
       THEN /\ last' = Reply("update_user", 404, "User not found", NoneId, NoneId)
            /\ UNCHANGED session
       ELSE IF username \in ShortUsernames
       THEN /\ last' = Reply("update_user", 400, "Username must be at least 3 characters long", NoneId, NoneId)
            /\ UNCHANGED session
       ELSE IF username # Unset /\ UsersByUsername(users, username) \ {user_id} # {}
       THEN /\ last' = Reply("update_user", 400, "Username already taken", NoneId, NoneId)
            /\ UNCHANGED session
       ELSE IF email # Unset /\ UsersByEmail(users, email) \ {user_id} # {}
       THEN /\ last' = Reply("update_user", 400, "Email already taken", NoneId, NoneId)
            /\ UNCHANGED session
       ELSE /\ session' = [session EXCEPT ![p] = [op |-> "update_user", step |-> "checked", id |-> user_id, n |-> NoneId, a |-> username, b |-> email]]
            /\ UNCHANGED last
    /\ UNCHANGED <<users, tokens>>
    /\ UsersUnchanged
    /\ UNCHANGED mechanism

\* update_user from the setattr loop to the return: the UPDATE of the row
\* the session loaded; a row deleted meanwhile, or a commit the database
\* refuses, ends in the except clause (rollback, 500).
UpdateUserCommit(p) ==
    /\ session[p].op = "update_user"
    /\ LET id == session[p].id
           row == User(IF session[p].a = Unset THEN users[id].username ELSE session[p].a, IF session[p].b = Unset THEN users[id].email ELSE session[p].b)
           tbl == [users EXCEPT ![id] = row]
       IN  IF users[id].live /\ UsersConstraint(tbl)
           THEN /\ users' = tbl
                /\ last' = Reply("update_user", 200, "", id, NoneId)
           ELSE /\ UNCHANGED users
                /\ last' = Reply("update_user", 500, "Error updating user", NoneId, NoneId)
    /\ session' = [session EXCEPT ![p] = Idle]
    /\ UNCHANGED tokens
    /\ UsersUnchanged
    /\ UNCHANGED mechanism

\* delete_user: any authenticated caller deletes any row.
DeleteUser(user_id) ==
    /\ IF ~Authenticated
       THEN /\ last' = Reply("delete_user", 401, "Invalid authentication credentials", NoneId, NoneId)
            /\ UNCHANGED users
       ELSE IF user_id \notin DOMAIN users \/ ~users[user_id].live
       THEN /\ last' = Reply("delete_user", 404, "User not found", NoneId, NoneId)
            /\ UNCHANGED users
       ELSE /\ users' = [users EXCEPT ![user_id] = DeletedUser]
            /\ last' = Reply("delete_user", 200, "", NoneId, NoneId)
    /\ UNCHANGED <<tokens, session>>
    /\ UsersUnchanged
    /\ UNCHANGED mechanism

UserIds == 1..MaxRows

NextUsers ==
    \/ \E u \in Usernames, ok \in BOOLEAN : Login(u, ok)
    \/ \E t \in tokens : VerifyUserToken(t)
    \/ \E p \in Proc, u \in Usernames \cup ShortUsernames, e \in Emails, long \in BOOLEAN : CreateUserCheck(p, u, e, long)
    \/ \E p \in Proc : CreateUserCommit(p)
    \/ \E p \in Proc, id \in UserIds, u \in Usernames \cup ShortUsernames : UpdateUserCheck(p, id, u, Unset)
    \/ \E p \in Proc, id \in UserIds, e \in Emails : UpdateUserCheck(p, id, Unset, e)
    \/ \E p \in Proc : UpdateUserCommit(p)
    \/ \E id \in UserIds : DeleteUser(id)

SpecUsers == Init /\ [][NextUsers]_vars

\* C22: a token login issued to the user with id X never verifies as a
\* user with another id, whatever create_user, update_user and delete_user
\* did in between: verify-token answers 401 or X.
C22_TokenVerifiesAsHolder ==
    (last.op = "verify_token" /\ last.status_code = 200) => last.user_id = last.id

MaxPayments == 3

\* PaymentCreate.amount and RefundCreate.amount: any float, none validated
\* by the schema.
Amounts == {-1, 0, 1, 2}
OrderIds == {0, 1}
PaymentMethods == {"card", " "}
CardNumbers == {"4111 1111 1111 1111", "1234"}
\* Where an unexpected exception strikes a handler, if anywhere.
Faults == {"none", "commit", "refresh"}

\* A row of table payments. refund_of is no column: it records the payment
\* whose refund the row is, for the properties.
Payment(order_id, amount, status, refund_of) == [order_id |-> order_id, amount |-> amount, status |-> status, refund_of |-> refund_of]

\* card_number without blanks and dashes is 13 to 19 digits.
CardNumberValid(card_number) == card_number = "4111 1111 1111 1111"

PaymentsUnchanged == UNCHANGED <<now, log_file, users, tokens, orders, order_items, reviews, session>>

\* The validations of process_payment, in order: the detail of the first
\* that fails, or "".
PaymentInvalid(order_id, amount, payment_method, card_number) ==
    IF amount <= 0 THEN "Payment amount must be greater than 0"
    ELSE IF order_id <= 0 THEN "Invalid order ID"
    ELSE IF payment_method = " " THEN "Payment method cannot be empty"
    ELSE IF ~CardNumberValid(card_number) THEN "Invalid card number format"
    ELSE ""

\* db.rollback() of the except clauses: it undoes what the session has not
\* committed, so nothing of a table that was committed.
rollback_undoes_commit(committed, before) == before
rollback(committed, before) == committed

\* process_payment: success is the draw of random.choice.
ProcessPayment(authenticated, order_id, amount, payment_method, card_number, success, fault) ==
    /\ Len(payments) < MaxPayments
    /\ LET invalid == PaymentInvalid(order_id, amount, payment_method, card_number)
           row == Payment(order_id, amount, IF success THEN "completed" ELSE "failed", NoneId)
           committed == Append(payments, row)
       IN  IF ~authenticated
           THEN /\ last' = Reply("process_payment", 401, "Authentication required", NoneId, NoneId)
                /\ UNCHANGED payments
           ELSE IF invalid # ""
           THEN /\ last' = Reply("process_payment", 400, invalid, NoneId, NoneId)
                /\ payments' = rollback(payments, payments)
           ELSE IF fault = "commit"
           THEN /\ last' = Reply("process_payment", 500, "Error processing payment", NoneId, NoneId)
                /\ payments' = rollback(payments, payments)
           ELSE IF fault = "refresh"
           THEN /\ last' = Reply("process_payment", 500, "Error processing payment", NoneId, NoneId)
                /\ payments' = rollback(committed, payments)
           ELSE IF ~success
           THEN /\ last' = Reply("process_payment", 400, "Payment processing failed", NoneId, NoneId)
                /\ payments' = rollback(committed, payments)
           ELSE /\ last' = Reply("process_payment", 200, "", Len(committed), NoneId)
                /\ payments' = committed
    /\ PaymentsUnchanged
    /\ UNCHANGED mechanism

\* process_refund.
ProcessRefund(authenticated, payment_id, amount) ==
    /\ Len(payments) < MaxPayments
    /\ IF ~authenticated
       THEN /\ last' = Reply("process_refund", 401, "Authentication required", payment_id, NoneId)
            /\ UNCHANGED payments
       ELSE IF payment_id \notin DOMAIN payments
       THEN /\ last' = Reply("process_refund", 404, "Payment not found", payment_id, NoneId)
            /\ UNCHANGED payments
       ELSE IF payments[payment_id].status # "completed"
       THEN /\ last' = Reply("process_refund", 400, "Can only refund completed payments", payment_id, NoneId)
            /\ UNCHANGED payments
       ELSE IF amount > payments[payment_id].amount
       THEN /\ last' = Reply("process_refund", 400, "Refund amount cannot exceed payment amount", payment_id, NoneId)
            /\ UNCHANGED payments
       ELSE /\ payments' = Append(payments, Payment(payments[payment_id].order_id, -amount, "refunded", payment_id))
            /\ last' = Reply("process_refund", 200, "", Len(payments) + 1, NoneId)
    /\ PaymentsUnchanged
    /\ UNCHANGED mechanism

PaymentIds == 1..MaxPayments

NextPayments ==
    \/ \E au \in BOOLEAN, o \in OrderIds, a \in Amounts, m \in PaymentMethods, c \in CardNumbers, ok \in BOOLEAN, f \in Faults : ProcessPayment(au, o, a, m, c, ok, f)
    \/ \E au \in BOOLEAN, id \in PaymentIds, a \in Amounts : ProcessRefund(au, id, a)

SpecPayments == Init /\ [][NextPayments]_vars

\* The amount refunded on payment id by the first n rows of the table.
RECURSIVE Refunded(_, _)
Refunded(id, n) == IF n = 0 THEN 0 ELSE Refunded(id, n - 1) + (IF payments[n].refund_of = id THEN -payments[n].amount ELSE 0)

\* C23: the refunds of one completed payment never sum to more than the
\* payment's amount, and every refund row has a negative amount.
C23_RefundsWithinPayment ==
    /\ \A id \in DOMAIN payments : payments[id].status = "completed" => Refunded(id, Len(payments)) <= payments[id].amount
    /\ \A n \in DOMAIN payments : payments[n].status = "refunded" => payments[n].amount < 0

\* A step of process_payment that answered the caller 4xx or 5xx.
PaymentError == last'.op = "process_payment" /\ last'.status_code >= 400

\* C24 as stated: a call of process_payment that answers 4xx or 5xx leaves
\* table payments as it was.
C24_ErrorLeavesNoRow ==
    [][PaymentError => payments' = payments]_vars

\* C24 amended: a call of process_payment that answers 4xx or 5xx before
\* its commit has succeeded (authentication, validation, a fault in the
\* commit) leaves table payments as it was; an error after the commit
\* leaves exactly the row committed: the simulated processing failure a row
\* of status failed, a fault in refresh the row as written.
C24_ErrorBeforeCommitLeavesNoRow ==
    [][PaymentError =>
        IF last'.detail = "Payment processing failed"
        THEN /\ Len(payments') = Len(payments) + 1
             /\ SubSeq(payments', 1, Len(payments)) = payments
             /\ payments'[Len(payments')].status = "failed"
        ELSE IF last'.detail = "Error processing payment"
        THEN \/ payments' = payments
             \/ /\ Len(payments') = Len(payments) + 1
                /\ SubSeq(payments', 1, Len(payments)) = payments
        ELSE payments' = payments]_vars

\* C24 case: process_payment answered "Payment processing failed" and the
\* row of the failed payment is in the table.
C24_Witness ==
    /\ last.op = "process_payment"
    /\ last.detail = "Payment processing failed"
    /\ \E n \in DOMAIN payments : payments[n].status = "failed"

\* ---------------------------------------------------------------------------
\* Order service (order_service/main.py): tables orders and order_items.
\* ---------------------------------------------------------------------------

\* Number of rows table orders can hold.
MaxOrders == 2

\* The user_id of the identity require_auth verified for the request.
CallerIds == {1}
\* OrderCreate.user_id, a field of the request body.
BodyUserIds == {0, 1, 2}
OrderItemCreate(book_id, quantity, price) == [book_id |-> book_id, quantity |-> quantity, price |-> price]
\* OrderCreate.items.
ItemLists == {<<>>, <<OrderItemCreate(1, 2, 3), OrderItemCreate(2, 1, 1)>>}
\* Where an unexpected exception strikes create_order, if anywhere.
OrderFaults == {"none", "first commit", "second commit"}

valid_statuses == {"pending", "confirmed", "shipped", "delivered", "cancelled"}
\* OrderStatusUpdate.status: any string.
StatusUpdates == valid_statuses \cup {"lost"}

\* A row of table orders. requested, created_by and reply are no columns:
\* they record the number of items the request carried, the caller that
\* require_auth verified and the status the caller was answered.
Order(user_id, total_amount, requested, created_by, reply) == [user_id |-> user_id, status |-> "pending", total_amount |-> total_amount, requested |-> requested, created_by |-> created_by, reply |-> reply]
OrderItem(order_id, item) == [order_id |-> order_id, book_id |-> item.book_id, quantity |-> item.quantity, price |-> item.price]

\* sum(item.price * item.quantity for item in items).
RECURSIVE total_amount(_)
total_amount(items) == IF items = <<>> THEN 0 ELSE Head(items).price * Head(items).quantity + total_amount(Tail(items))

\* The rows one loop of db.add(db_item) adds for an order.
RECURSIVE OrderItems(_, _)
OrderItems(order_id, items) == IF items = <<>> THEN <<>> ELSE <<OrderItem(order_id, Head(items))>> \o OrderItems(order_id, Tail(items))

\* The validators of OrderCreate and OrderItemCreate.
OrderCreateValid(user_id, items) == user_id > 0 /\ items # <<>> /\ \A i \in DOMAIN items : items[i].book_id > 0 /\ items[i].quantity > 0 /\ items[i].price > 0

\* Whether update_order_status refuses the status.
status_unvalidated(status) == FALSE
status_invalid(status) == status \notin valid_statuses

OrdersUnchanged == UNCHANGED <<now, log_file, users, tokens, payments, reviews, session>>

\* create_order with its two commits: the order row first, its items second.
CreateOrder(authenticated, caller, user_id, items, fault) ==
    /\ Len(orders) < MaxOrders
    /\ LET id == Len(orders) + 1 IN
       IF ~authenticated
       THEN /\ last' = Reply("create_order", 401, "Authentication required", NoneId, NoneId)
            /\ UNCHANGED <<orders, order_items>>
       ELSE IF ~OrderCreateValid(user_id, items)
       THEN /\ last' = Reply("create_order", 422, "value_error", NoneId, caller)
            /\ UNCHANGED <<orders, order_items>>
       ELSE IF fault = "first commit"
       THEN /\ last' = Reply("create_order", 500, "Error creating order", NoneId, caller)
            /\ UNCHANGED <<orders, order_items>>
       ELSE IF fault = "second commit"
       THEN /\ last' = Reply("create_order", 500, "Error creating order", NoneId, caller)
            /\ orders' = Append(orders, Order(user_id, total_amount(items), Len(items), caller, 500))
            /\ UNCHANGED order_items
       ELSE /\ last' = Reply("create_order", 200, "", id, caller)
            /\ orders' = Append(orders, Order(user_id, total_amount(items), Len(items), caller, 200))
            /\ order_items' = order_items \o OrderItems(id, items)
    /\ OrdersUnchanged
    /\ UNCHANGED mechanism

\* update_order_status.
UpdateOrderStatus(authenticated, order_id, status) ==
    /\ IF ~authenticated
       THEN /\ last' = Reply("update_order_status", 401, "Authentication required", order_id, NoneId)
            /\ UNCHANGED orders
       ELSE IF order_id \notin DOMAIN orders
       THEN /\ last' = Reply("update_order_status", 404, "Order not found", order_id, NoneId)
            /\ UNCHANGED orders
       ELSE IF status_invalid(status)
       THEN /\ last' = Reply("update_order_status", 400, "Invalid status", order_id, NoneId)
            /\ UNCHANGED orders
       ELSE /\ orders' = [orders EXCEPT ![order_id].status = status]
            /\ last' = Reply("update_order_status", 200, "", order_id, NoneId)
    /\ UNCHANGED order_items
    /\ OrdersUnchanged
    /\ UNCHANGED mechanism

\* order_id of the path: an existing order or not.
PathOrderIds == 1..(MaxOrders + 1)

NextOrders ==
    \/ \E au \in BOOLEAN, c \in CallerIds, u \in BodyUserIds, items \in ItemLists, f \in OrderFaults : CreateOrder(au, c, u, items, f)
    \/ \E au \in BOOLEAN, id \in PathOrderIds, st \in StatusUpdates : UpdateOrderStatus(au, id, st)

SpecOrders == Init /\ [][NextOrders]_vars

\* The stored items of an order.
ItemsOf(order_id) == SelectSeq(order_items, LAMBDA row : row.order_id = order_id)

\* C25: create_order is atomic: every order in the table was answered with
\* success, has as many items stored as were requested, and its
\* total_amount is the sum of price * quantity over its stored items.
C25_OrderAtomic ==
    \A id \in DOMAIN orders :
        /\ orders[id].reply = 200
        /\ Len(ItemsOf(id)) = orders[id].requested
        /\ orders[id].total_amount = total_amount(ItemsOf(id))

\* C26: every order's status is one of the five valid statuses, a new order
\* starts as pending, and update_order_status with a status outside the
\* set or an unknown order id answers 400 or 404 and leaves every order
\* unchanged.
C26_StatusesValid ==
    /\ [](\A id \in DOMAIN orders : orders[id].status \in valid_statuses)
    /\ [][Len(orders') > Len(orders) => orders'[Len(orders')].status = "pending"]_vars
    /\ [][\A id \in PathOrderIds, st \in StatusUpdates : (UpdateOrderStatus(TRUE, id, st) /\ (st \notin valid_statuses \/ id \notin DOMAIN orders)) => (last'.status_code \in {400, 404} /\ orders' = orders)]_vars

\* C26 case: update_order_status refused a request after an order had
\* been created and moved on from pending.
C26_Witness ==
    /\ last.op = "update_order_status"
    /\ last.status_code \in {400, 404}
    /\ \E id \in DOMAIN orders : orders[id].status = "shipped"

\* ---------------------------------------------------------------------------
\* Review service (review_service/main.py): table reviews.
\* ---------------------------------------------------------------------------

\* ReviewCreate.rating and the rating of update_review: any int.
Ratings == {0, 1, 5, 6}
\* update_review called without a rating (rating: Optional[int] = None).
NoRating == -1
\* The one book reviewed.
BookId == 1
Comments == {"fine", " "}

\* A row of table reviews; a deleted row keeps its id and nothing else.
\* created_by is no column: it records the caller require_auth verified.
Review(user_id, rating, created_by) == [live |-> TRUE, book_id |-> BookId, user_id |-> user_id, rating |-> rating, created_by |-> created_by]
DeletedReview == [live |-> FALSE, book_id |-> NoneId, user_id |-> NoneId, rating |-> NoneId, created_by |-> NoneId]

\* db.query(Review).filter(Review.book_id == ..., Review.user_id == ...).
ReviewsOf(tbl, book_id, user_id) == {i \in DOMAIN tbl : tbl[i].live /\ tbl[i].book_id = book_id /\ tbl[i].user_id = user_id}

\* UniqueConstraint('book_id', 'user_id'), checked by the database at commit.
ReviewsConstraint_absent(tbl) == TRUE
ReviewsConstraint(tbl) == \A i, j \in DOMAIN tbl : (i # j /\ tbl[i].live /\ tbl[j].live) => (tbl[i].book_id # tbl[j].book_id \/ tbl[i].user_id # tbl[j].user_id)

\* The validations of add_review, in order: the detail of the first that
\* fails, or "".
ReviewInvalid(user_id, rating, comment) ==
    IF rating < 1 \/ rating > 5 THEN "Rating must be between 1 and 5"
    ELSE IF user_id <= 0 THEN "Invalid user ID"
    ELSE IF comment = " " THEN "Comment cannot be empty"
    ELSE ""

ReviewsUnchanged == UNCHANGED <<now, log_file, users, tokens, payments, orders, order_items>>

\* add_review up to the try: the validations and the lookup of the pair.
AddReviewCheck(p, caller, user_id, rating, comment) ==
    /\ session[p].op = ""
    /\ Len(reviews) + Cardinality({q \in Proc : session[q].op = "add_review"}) < MaxRows
    /\ IF ReviewInvalid(user_id, rating, comment) # ""
       THEN /\ last' = Reply("add_review", 400, ReviewInvalid(user_id, rating, comment), NoneId, caller)
            /\ UNCHANGED session
       ELSE IF ReviewsOf(reviews, BookId, user_id) # {}
       THEN /\ last' = Reply("add_review", 400, "User has already reviewed this book", NoneId, caller)
            /\ UNCHANGED session
       ELSE /\ session' = [session EXCEPT ![p] = [op |-> "add_review", step |-> "checked", id |-> user_id, n |-> rating, a |-> "", b |-> ""]]
            /\ UNCHANGED last
    /\ UNCHANGED reviews
    /\ ReviewsUnchanged
    /\ UNCHANGED mechanism

\* add_review inside the try: the commit, and the rollback and 500 of the
\* except clause when the database refuses it.
AddReviewCommit(p, caller) ==
    /\ session[p].op = "add_review"
    /\ LET tbl == Append(reviews, Review(session[p].id, session[p].n, caller)) IN
       IF ReviewsConstraint(tbl)
       THEN /\ reviews' = tbl
            /\ last' = Reply("add_review", 200, "", Len(tbl), caller)
       ELSE /\ UNCHANGED reviews
            /\ last' = Reply("add_review", 500, "Error creating review", NoneId, caller)
    /\ session' = [session EXCEPT ![p] = Idle]
    /\ ReviewsUnchanged
    /\ UNCHANGED mechanism

\* update_review up to db.commit: the lookup and the validation.
UpdateReviewCheck(p, review_id, rating) ==
    /\ session[p].op = ""
    /\ IF review_id \notin DOMAIN reviews \/ ~reviews[review_id].live
       THEN /\ last' = Reply("update_review", 404, "Review not found", review_id, NoneId)
            /\ UNCHANGED session
       ELSE IF rating # NoRating /\ (rating < 1 \/ rating > 5)
       THEN /\ last' = Reply("update_review", 400, "Rating must be between 1 and 5", review_id, NoneId)
            /\ UNCHANGED session
       ELSE /\ session' = [session EXCEPT ![p] = [op |-> "update_review", step |-> "checked", id |-> review_id, n |-> rating, a |-> "", b |-> ""]]
            /\ UNCHANGED last
    /\ UNCHANGED reviews
    /\ ReviewsUnchanged
    /\ UNCHANGED mechanism

\* update_review from db.commit: the UPDATE of the row the session loaded;
\* a row deleted meanwhile makes the commit raise, which nothing catches
\* (500).
UpdateReviewCommit(p) ==
    /\ session[p].op = "update_review"
    /\ LET id == session[p].id IN
       IF reviews[id].live
       THEN /\ reviews' = [reviews EXCEPT ![id].rating = IF session[p].n = NoRating THEN @ ELSE session[p].n]
            /\ last' = Reply("update_review", 200, "", id, NoneId)
       ELSE /\ UNCHANGED reviews
            /\ last' = Reply("update_review", 500, "Internal Server Error", id, NoneId)
    /\ session' = [session EXCEPT ![p] = Idle]
    /\ ReviewsUnchanged
    /\ UNCHANGED mechanism

\* delete_review.
DeleteReview(review_id) ==
    /\ IF review_id \notin DOMAIN reviews \/ ~reviews[review_id].live
       THEN /\ last' = Reply("delete_review", 404, "Review not found", review_id, NoneId)
            /\ UNCHANGED reviews
       ELSE /\ reviews' = [reviews EXCEPT ![review_id] = DeletedReview]
            /\ last' = Reply("delete_review", 200, "", review_id, NoneId)
    /\ UNCHANGED session
    /\ ReviewsUnchanged
    /\ UNCHANGED mechanism

ReviewIds == 1..MaxRows

NextReviews ==
    \/ \E p \in Proc, c \in CallerIds, u \in BodyUserIds, r \in Ratings, t \in Comments : AddReviewCheck(p, c, u, r, t)
    \/ \E p \in Proc, c \in CallerIds : AddReviewCommit(p, c)
    \/ \E p \in Proc, id \in ReviewIds, r \in Ratings \cup {NoRating} : UpdateReviewCheck(p, id, r)
    \/ \E p \in Proc : UpdateReviewCommit(p)
    \/ \E id \in ReviewIds : DeleteReview(id)

SpecReviews == Init /\ [][NextReviews]_vars

\* C27: under every interleaving of concurrent add_review, update_review
\* and delete_review requests there is at most one review per (book_id,
\* user_id) pair and every stored rating is between 1 and 5; an add_review
\* for a pair that has a review is refused, at its lookup (it goes no
\* further) or at its commit (500), and a review is only ever added for a
\* pair that has none, the stored reviews unchanged.
C27_OneReviewPerPair ==
    /\ [](\A i, j \in DOMAIN reviews : (i < j /\ reviews[i].live /\ reviews[j].live) => (reviews[i].book_id # reviews[j].book_id \/ reviews[i].user_id # reviews[j].user_id))
    /\ [](\A i \in DOMAIN reviews : reviews[i].live => reviews[i].rating \in 1..5)
    /\ [][\A p \in Proc : (session[p].op = "" /\ session'[p].op = "add_review") => ReviewsOf(reviews, BookId, session'[p].id) = {}]_vars
    /\ [][\A p \in Proc : (session[p].op = "add_review" /\ session'[p].op = "" /\ ReviewsOf(reviews, BookId, session[p].id) # {}) => (last'.status_code = 500 /\ reviews' = reviews)]_vars
    /\ [][Len(reviews') > Len(reviews) => (SubSeq(reviews', 1, Len(reviews)) = reviews /\ ReviewsOf(reviews, reviews'[Len(reviews')].book_id, reviews'[Len(reviews')].user_id) = {})]_vars

\* C27 case: two add_review requests for one pair passed the lookup; one
\* review is stored and the other request was refused at its commit.
C27_Witness ==
    /\ last.op = "add_review"
    /\ last.status_code = 500
    /\ \E i \in DOMAIN reviews : reviews[i].live

\* C29: an order or a review is stored under the user_id of the identity
\* require_auth verified for the request that created it.
C29_StoredUnderCaller ==
    /\ \A id \in DOMAIN orders : orders[id].user_id = orders[id].created_by
    /\ \A id \in DOMAIN reviews : reviews[id].live => reviews[id].user_id = reviews[id].created_by

\* ---------------------------------------------------------------------------
\* Logging service (logging_service/main.py): the lines of micro_services.log.
\* ---------------------------------------------------------------------------

\* LogEntry.timestamp of an incoming record: None, or the time the emitter
\* read when it built the record, which is not after the sink's time.
NoTimestamp == 0
Timestamps == {NoTimestamp} \cup (1..now)
StatusCodes == {200, 500}

\* "if not log_entry.timestamp: log_entry.timestamp = datetime.utcnow()".
set_timestamp_always(timestamp, utcnow) == utcnow
set_timestamp(timestamp, utcnow) == IF timestamp = NoTimestamp THEN utcnow ELSE timestamp

\* logger.error / logger.info under the format "%(asctime)s - %(levelname)s
\* - %(message)s": the line carries the time of the logging call and the
\* message create_log formats, which has no timestamp in it. received and
\* timestamp are not written: they record LogEntry.timestamp as it came
\* in and as create_log left it.
LogLine(asctime, status, received, timestamp) == [asctime |-> asctime, levelname |-> IF status >= 400 THEN "ERROR" ELSE "INFO", status_code |-> status, received |-> received, timestamp |-> timestamp]

SinkUnchanged == UNCHANGED <<users, tokens, payments, orders, order_items, reviews, session>>

\* The clock advances.
Tick ==
    /\ now < MaxClock
    /\ now' = now + 1
    /\ UNCHANGED <<log_file, last>>
    /\ SinkUnchanged
    /\ UNCHANGED mechanism

\* create_log (POST /logs).
CreateLog(status, timestamp) ==
    /\ Len(log_file) < MaxRows
    /\ log_file' = Append(log_file, LogLine(now, status, timestamp, set_timestamp(timestamp, now)))
    /\ last' = Reply("create_log", 200, "Log stored successfully", Len(log_file) + 1, NoneId)
    /\ UNCHANGED now
    /\ SinkUnchanged
    /\ UNCHANGED mechanism

NextSink ==
    \/ Tick
    \/ \E s \in StatusCodes, t \in Timestamps : CreateLog(s, t)

SpecSink == Init /\ [][NextSink]_vars

=============================================================================
